---- MODULE Spec2Model ----
(***************************************************************************)
(* Model of the ASSM messenger core:                                       *)
(*   - the WebSocket signaling relay and its connection registry           *)
(*     (src/server/routes.ts, wss.on('connection') .. broadcastToAllClients)*)
(*   - the per-sender chat rate limiter (src/server/routes.ts,             *)
(*     isRateLimited and POST /api/messages)                               *)
(*   - the client call session hook (src/client/src/hooks/useVoiceCall.ts) *)
(*     as it is wired into the chat page (src/client/src/pages/chat.tsx).  *)
(* Each part has its own specification over the shared variable tuple:     *)
(* SpecRelay, SpecRate, SpecCall.                                          *)
(***************************************************************************)
EXTENDS Integers, Sequences, FiniteSets, TLC

(***************************************************************************)
(* Bounds                                                                  *)
(***************************************************************************)
MaxUsers == 2

MaxConns == 2

MaxPayload == 1

NULL == 0

Users == 1..MaxUsers

Conns == 1..MaxConns

Payloads == 1..MaxPayload

(***************************************************************************)
(* Relay state.  One ws.on('connection') closure per transport: readyState *)
(* and the close code of the ws object, the closure variables userId and   *)
(* isAuthenticated, and the process-wide Map connectedClients.             *)
(* relayIn / relayOut record the frame handled by the last relay step and  *)
(* the ws.send calls it made (observation only, never read by the relay).  *)
(* authedAs[c] is the identity carried by the last token of c that verified.*)
VARIABLES readyState, closeCode, userId, isAuthenticated, connectedClients,
          relayIn, relayOut, authedAs

relayVars == <<readyState, closeCode, userId, isAuthenticated,
               connectedClients, relayIn, relayOut, authedAs>>

VARIABLES now, userMessageCounts, httpResponse, sendsSeen, firstSendAt,
          muteBegan, acceptLog

rateVars == <<now, userMessageCounts, httpResponse, sendsSeen, firstSendAt,
              muteBegan, acceptLog>>

(***************************************************************************)
(* Client call session: the useVoiceCall hook of one chat page.            *)
(* callState is the state of the last committed render; pending is the     *)
(* state React holds after the setCallState calls made since (dirty: a     *)
(* render is due, fresh: its otherUser is an object created since the last *)
(* render).  effect is the cleanup of the [endCall] effect that the last   *)
(* commit scheduled, with the otherUser its endCall closed over.           *)
(* peerConnectionRef / localStreamRef are the refs; pcs and streams are    *)
(* the RTCPeerConnection and MediaStream objects the page has created.     *)
(* calls[k] is one invocation of startCall (its position between awaits,   *)
(* its locals, and what it has done so far); staleTimers counts the 15 s   *)
(* timers left armed by invocations that ended in their catch block;       *)
(* offerTasks[t] is one call_offer handler suspended at its await,         *)
(* answerTasks[a] one invocation of answerCall.                            *)
(* users is the roster state of the chat page.                             *)
(* alerts and clientOut are the alert() texts and the socket sends of the  *)
(* last step, alerts holding "unhandled" as well when the step left a      *)
(* promise rejection that nothing handles; path follows the run startCall, *)
(* call_answer, connected, endCall to one callee and is "off" once any     *)
(* other event has happened (observation only).                            *)
(* audioMuted is the muted flag of the page's one <audio> element          *)
(* (audioRef.current.muted); trackDisabled holds the streams whose audio   *)
(* track has enabled = false.                                              *)
(***************************************************************************)
VARIABLES callState, pending, effect, peerConnectionRef, localStreamRef,
          pcs, streams, calls, staleTimers, offerTasks, answerTasks, alerts,
          clientOut,
          users, path, audioMuted, trackDisabled

callVars == <<callState, pending, effect, peerConnectionRef, localStreamRef,
              pcs, streams, calls, staleTimers, offerTasks, answerTasks, alerts,
              clientOut,
              users, path, audioMuted, trackDisabled>>

POLICY_VIOLATION == 1008

\* A bearer token: the identity in its payload and what jwt.verify makes of
\* it ("valid": signed with JWT_SECRET and not expired; "badsig"; "expired").
\* NoToken is a missing token (message.token undefined or empty).
TokenStatus == {"valid", "badsig", "expired"}

Tokens ==
  [present : {TRUE}, userId : Users, status : TokenStatus]

NoToken ==
  [present |-> FALSE, userId |-> NULL, status |-> "badsig"]

\* Variant of JwtVerify that checks the signature but not the expiry.
JwtVerifyNoExpiry(token) ==
  IF token.status # "badsig"
    THEN [ok |-> TRUE, userId |-> token.userId]
    ELSE [ok |-> FALSE, userId |-> NULL]

\* jwt.verify(token, JWT_SECRET): throws unless the signature is the server's
\* and the token has not expired; otherwise returns the payload.
JwtVerify(token) ==
  IF token.status = "valid"
    THEN [ok |-> TRUE, userId |-> token.userId]
    ELSE [ok |-> FALSE, userId |-> NULL]

SignalTypes == {"call_offer", "call_answer", "ice_candidate"}

RoutedTypes ==
  SignalTypes \cup {"call_end", "check_user_availability", "unknown"}

\* A wire frame as the client wrote it.  type "malformed" is data on which
\* JSON.parse (or the property access on its result) throws.
Frame(type, token, target, from, payload) ==
  [type |-> type, token |-> token,
   targetUserId |-> target, fromUserId |-> from, payload |-> payload]

AuthFrames ==
  { Frame("auth", t, NULL, NULL, NULL) : t \in Tokens \cup {NoToken} }

\* Frames the relay forwards carry a client-written fromUserId and a payload
\* (offer, answer or candidate); the other routed frames are read for their
\* type and targetUserId only.
ForwardedTypes == SignalTypes \cup {"call_end"}

RoutedFrames ==
  { Frame(ty, NoToken, tg, fr, p) :
      ty \in ForwardedTypes, tg \in Users \cup {NULL},
      fr \in Users \cup {NULL}, p \in Payloads }
  \cup
  { Frame("check_user_availability", NoToken, tg, NULL, NULL) :
      tg \in Users \cup {NULL} }
  \cup
  { Frame("unknown", NoToken, NULL, NULL, NULL) }

MalformedFrame == Frame("malformed", NoToken, NULL, NULL, NULL)

Frames == AuthFrames \cup RoutedFrames \cup {MalformedFrame}

\* A message the relay writes.  Unused fields are NULL, FALSE or "".
OutMsg(type, from, target, payload, uid, available, error) ==
  [type |-> type, fromUserId |-> from, targetUserId |-> target,
   payload |-> payload, userId |-> uid, available |-> available,
   error |-> error]

\* One ws.send call: the transport written to, the message, and whether the
\* peer gets it (the transport is OPEN and the write goes through).
SendTo(rs, c, msg, writeOk) ==
  [to |-> c, msg |-> msg, delivered |-> (rs[c] = "OPEN" /\ writeOk)]

\* connectedClients.get(key); keys that are not user ids are never present.
Lookup(reg, key) ==
  IF key \in DOMAIN reg THEN reg[key] ELSE NULL

\* Variant of Register that keeps an existing entry.
RegisterIfAbsent(reg, uid, c) ==
  IF reg[uid] = NULL THEN [reg EXCEPT ![uid] = c] ELSE reg

\* connectedClients.set(userId, ws)
Register(reg, uid, c) ==
  [reg EXCEPT ![uid] = c]

\* connectedClients.delete(userId) in ws.on('close')
Unregister(reg, uid, c) ==
  [reg EXCEPT ![uid] = NULL]

\* targetClient && targetClient.readyState === WebSocket.OPEN
Reachable(reg, rs, target) ==
  /\ Lookup(reg, target) # NULL
  /\ rs[Lookup(reg, target)] = "OPEN"

\* ws.close(code): starts the closing handshake of an OPEN transport and is
\* a no-op on one that is already closing or closed.
WsClose(rs, c) ==
  IF rs[c] = "OPEN" THEN [rs EXCEPT ![c] = "CLOSING"] ELSE rs

WsCloseCode(rs, cc, c, code) ==
  IF rs[c] = "OPEN" THEN [cc EXCEPT ![c] = code] ELSE cc

\* userId = decoded.userId
AuthIdentity(decoded, m) ==
  decoded.userId

\* Variant of StampForward that spreads the message after the stamp, so a
\* fromUserId written by the client survives.
StampForwardClientWins(m, uid) ==
  [type |-> m.type,
   fromUserId |-> IF m.fromUserId # NULL THEN m.fromUserId ELSE uid,
   targetUserId |-> m.targetUserId, payload |-> m.payload, userId |-> NULL,
   available |-> FALSE, error |-> ""]

\* { ...message, fromUserId: userId }
StampForward(m, uid) ==
  OutMsg(m.type, uid, m.targetUserId, m.payload, NULL, FALSE, "")

\* { type: 'call_end', fromUserId: userId }
StampCallEnd(m, uid) ==
  OutMsg("call_end", uid, NULL, NULL, NULL, FALSE, "")

CallErrorMsg ==
  OutMsg("call_error", NULL, NULL, NULL, NULL, FALSE, "User is not available")

AuthSuccessMsg ==
  OutMsg("auth_success", NULL, NULL, NULL, NULL, FALSE, "")

\* Variant of Available that asks for an open transport, as forwarding does.
AvailableIfOpen(reg, rs, target) ==
  target # NULL /\ Reachable(reg, rs, target)

\* !!(targetUserId && connectedClients.has(targetUserId))
Available(reg, rs, target) ==
  target # NULL /\ Lookup(reg, target) # NULL

AvailabilityMsg(reg, rs, target) ==
  OutMsg("user_availability", NULL, NULL, NULL, target,
         Available(reg, rs, target), "")

\* Variant of CallEndUnreachable that answers like the signaling branch.
CallEndUnreachableReplies(rs, c, writeOk) ==
  {SendTo(rs, c, CallErrorMsg, writeOk)}

\* The call_end branch has no else: what is written when the target is not
\* reachable.
CallEndUnreachable(rs, c, writeOk) ==
  {}

\* Variant of UnknownTypeSends that answers the sender with call_error.
UnknownTypeAnswered(rs, c, writeOk) ==
  {SendTo(rs, c, CallErrorMsg, writeOk)}

\* The chain of if / else if on message.type ends without an else: what is
\* written for a type none of the branches names.
UnknownTypeSends(rs, c, writeOk) ==
  {}

\* Variant of PreAuthRejected that guards the signaling branch only.
PreAuthRejectedSignalOnly(m, authed) ==
  m.type \in {"call_offer", "call_answer", "ice_candidate"} /\ ~authed

\* if (!isAuthenticated) { ws.close(1008, 'Not authenticated'); return; }
PreAuthRejected(m, authed) ==
  m.type # "auth" /\ ~authed

RelayInit ==
  /\ readyState = [c \in Conns |-> "NEW"]
  /\ closeCode = [c \in Conns |-> 0]
  /\ userId = [c \in Conns |-> NULL]
  /\ isAuthenticated = [c \in Conns |-> FALSE]
  /\ connectedClients = [u \in Users |-> NULL]
  /\ relayIn = [conn |-> NULL, frame |-> MalformedFrame, event |-> "none"]
  /\ relayOut = {}
  /\ authedAs = [c \in Conns |-> NULL]

\* wss.on('connection'): a transport is accepted; its closure starts with
\* userId = null and isAuthenticated = false.
Connect(c) ==
  /\ readyState[c] = "NEW"
  /\ readyState' = [readyState EXCEPT ![c] = "OPEN"]
  /\ relayIn' = [conn |-> c, frame |-> MalformedFrame, event |-> "connection"]
  /\ relayOut' = {}
  /\ UNCHANGED <<closeCode, userId, isAuthenticated, connectedClients, authedAs>>
  /\ UNCHANGED <<rateVars, callVars>>

\* The auth branch of ws.on('message').
OnAuth(c, m, writeOk) ==
  /\ m.type = "auth"
  /\ authedAs' = IF m.token.present /\ m.token.status = "valid"
                   THEN [authedAs EXCEPT ![c] = m.token.userId]
                   ELSE authedAs
  /\ IF ~m.token.present
       THEN /\ readyState' = WsClose(readyState, c)
            /\ closeCode' = WsCloseCode(readyState, closeCode, c, POLICY_VIOLATION)
            /\ relayOut' = {}
            /\ UNCHANGED <<userId, isAuthenticated, connectedClients>>
       ELSE LET decoded == JwtVerify(m.token) IN
            IF decoded.ok
              THEN LET uid == AuthIdentity(decoded, m) IN
                   /\ userId' = [userId EXCEPT ![c] = uid]
                   /\ isAuthenticated' = [isAuthenticated EXCEPT ![c] = TRUE]
                   /\ IF uid # NULL
                        THEN /\ connectedClients' = Register(connectedClients, uid, c)
                             /\ relayOut' = {SendTo(readyState, c, AuthSuccessMsg, writeOk)}
                        ELSE /\ relayOut' = {}
                             /\ UNCHANGED connectedClients
                   /\ UNCHANGED <<readyState, closeCode>>
              ELSE /\ readyState' = WsClose(readyState, c)
                   /\ closeCode' = WsCloseCode(readyState, closeCode, c, POLICY_VIOLATION)
                   /\ relayOut' = {}
                   /\ UNCHANGED <<userId, isAuthenticated, connectedClients>>

\* The non-auth branch of ws.on('message').
OnRouted(c, m, writeOk) ==
  /\ m.type \in RoutedTypes
  /\ UNCHANGED <<userId, isAuthenticated, connectedClients, authedAs>>
  /\ IF PreAuthRejected(m, isAuthenticated[c])
       THEN /\ readyState' = WsClose(readyState, c)
            /\ closeCode' = WsCloseCode(readyState, closeCode, c, POLICY_VIOLATION)
            /\ relayOut' = {}
       ELSE /\ UNCHANGED <<readyState, closeCode>>
            /\ relayOut' =
                 IF m.type \in SignalTypes
                   THEN IF Reachable(connectedClients, readyState, m.targetUserId)
                          THEN {SendTo(readyState, Lookup(connectedClients, m.targetUserId),
                                       StampForward(m, userId[c]), writeOk)}
                          ELSE {SendTo(readyState, c, CallErrorMsg, writeOk)}
                 ELSE IF m.type = "call_end"
                   THEN IF Reachable(connectedClients, readyState, m.targetUserId)
                          THEN {SendTo(readyState, Lookup(connectedClients, m.targetUserId),
                                       StampCallEnd(m, userId[c]), writeOk)}
                          ELSE CallEndUnreachable(readyState, c, writeOk)
                 ELSE IF m.type = "check_user_availability"
                   THEN {SendTo(readyState, c,
                                AvailabilityMsg(connectedClients, readyState,
                                                m.targetUserId), writeOk)}
                 ELSE UnknownTypeSends(readyState, c, writeOk)

\* JSON.parse throws: the outer catch logs and the handler returns.
OnMalformed(c, m) ==
  /\ m.type = "malformed"
  /\ relayOut' = {}
  /\ UNCHANGED <<readyState, closeCode, userId, isAuthenticated, connectedClients,
                 authedAs>>

\* ws.on('message'): one frame from transport c.  The ws library keeps
\* emitting 'message' while the closing handshake is in progress.
OnMessage(c, m, writeOk) ==
  /\ readyState[c] \in {"OPEN", "CLOSING"}
  /\ relayIn' = [conn |-> c, frame |-> m, event |-> "message"]
  /\ UNCHANGED <<rateVars, callVars>>
  /\ \/ OnAuth(c, m, writeOk)
     \/ OnRouted(c, m, writeOk)
     \/ OnMalformed(c, m)

\* ws.on('close'): the transport is gone (peer hung up, or the closing
\* handshake started by ws.close finished).
OnClose(c) ==
  /\ readyState[c] \in {"OPEN", "CLOSING"}
  /\ readyState' = [readyState EXCEPT ![c] = "CLOSED"]
  /\ connectedClients' =
       IF userId[c] # NULL
         THEN Unregister(connectedClients, userId[c], c)
         ELSE connectedClients
  /\ relayIn' = [conn |-> c, frame |-> MalformedFrame, event |-> "close"]
  /\ relayOut' = {}
  /\ UNCHANGED <<closeCode, userId, isAuthenticated, authedAs>>
  /\ UNCHANGED <<rateVars, callVars>>

BroadcastTypes == {"user_added", "user_updated"}

\* { type: 'user_added' | 'user_updated', user: { id, ... } }
BroadcastMsg(type, uid) ==
  OutMsg(type, NULL, NULL, NULL, uid, FALSE, "")

\* The transports the registry holds that are OPEN.
OpenClients(reg, rs) ==
  {c \in Conns : rs[c] = "OPEN" /\ \E u \in Users : reg[u] = c}

\* Variant of BroadcastSends in which a write that fails ends the loop.
BroadcastSendsUntilFailure(reg, rs, msg, ok) ==
  {SendTo(rs, c, msg, c \in ok) :
     c \in {d \in OpenClients(reg, rs) :
              \A e \in OpenClients(reg, rs) : e < d => e \in ok}}

\* connectedClients.forEach(client => { if (client.readyState === OPEN)
\* client.send(JSON.stringify(data)) }): ws.send on an OPEN transport does
\* not throw when the write fails, so every open client is written to; ok
\* is the set of transports whose write goes through.
BroadcastSends(reg, rs, msg, ok) ==
  {SendTo(rs, c, msg, c \in ok) : c \in OpenClients(reg, rs)}

\* broadcastToAllClients(data), called by the routes that create or update
\* a user.
BroadcastToAllClients(type, uid, ok) ==
  /\ relayIn' = [conn |-> NULL, frame |-> MalformedFrame, event |-> "broadcast"]
  /\ relayOut' = BroadcastSends(connectedClients, readyState,
                                BroadcastMsg(type, uid), ok)
  /\ UNCHANGED <<readyState, closeCode, userId, isAuthenticated,
                 connectedClients, authedAs>>
  /\ UNCHANGED <<rateVars, callVars>>

\* The routes that create a user and the routes that update a profile.
CreateRoutes == {"auth/register", "auth/verify-email-code"}

UpdateRoutes == {"profile/setup", "profile/update", "users/:id"}

\* The type a route hands to broadcastToAllClients once its storage call has
\* gone through; "none" for a route that answers without calling it.
RouteBroadcast(route) ==
  CASE route = "auth/register" -> "user_added"
    [] route = "users/:id" -> "user_updated"
    [] OTHER -> "none"

\* One request to a user route on behalf of user uid.  stored is whether the
\* route's storage.createUser / storage.updateUser call was reached and
\* returned the user (a request refused by validation, for an unknown user
\* or failing in storage stores nothing and is answered with an error); ok
\* is the set of transports whose write goes through.
UserRoute(route, uid, stored, ok) ==
  /\ relayIn' = [conn |-> NULL, frame |-> MalformedFrame, event |-> route]
  /\ httpResponse' = [status |-> IF stored THEN 200 ELSE 400,
                      remainingTime |-> 0, sender |-> uid, persisted |-> stored]
  /\ relayOut' = IF stored /\ RouteBroadcast(route) # "none"
                   THEN BroadcastSends(connectedClients, readyState,
                                       BroadcastMsg(RouteBroadcast(route), uid), ok)
                   ELSE {}
  /\ UNCHANGED <<readyState, closeCode, userId, isAuthenticated,
                 connectedClients, authedAs>>
  /\ UNCHANGED <<now, userMessageCounts, sendsSeen, firstSendAt, muteBegan,
                 acceptLog>>
  /\ UNCHANGED callVars

(***************************************************************************)
(* Chat rate limiter.  now is Date.now() in milliseconds from an arbitrary *)
(* origin; userMessageCounts is the process-wide Map of isRateLimited.     *)
(* httpResponse is the answer of the last HTTP request handled (POST       *)
(* /api/messages, or one of the user routes) and whether it stored a row.  *)
(* sendsSeen[u] counts the sends of u up to MaxSends (then it saturates),  *)
(* firstSendAt[u] is the time of u's first send, muteBegan[u] the time of   *)
(* the first rejection since u's last accepted send, NoTime if there was   *)
(* none (observation only).  acceptLog[u] lists the instants of the last   *)
(* WINDOW_MS at which sends of u passed the limiter, each with the number  *)
(* of sends that passed at it; it is kept by SpecBurst only, which follows *)
(* the limiter up to MaxBurstNow (observation only).                       *)
(***************************************************************************)
MaxSenders == 1

MaxBurstNow == 60001

MaxNow == 130000

MaxSends == 23

WINDOW_MS == 60000

MESSAGE_LIMIT == 20

MUTE_SECONDS == 60

Senders == 1..MaxSenders

\* The clock moves between two requests by about a third of a window, one
\* millisecond more or one less, so that requests fall on, just before and
\* just after the window and mute boundaries.
ClockSteps == {(WINDOW_MS \div 3) - 1, WINDOW_MS \div 3, (WINDOW_MS \div 3) + 1}

NoTime == 0 - 1

\* userMessageCounts.get(userId) === undefined
NoLimit ==
  [present |-> FALSE, count |-> 0, resetTime |-> 0, mutedUntil |-> 0]

Limit(count, resetTime, mutedUntil) ==
  [present |-> TRUE, count |-> count, resetTime |-> resetTime,
   mutedUntil |-> mutedUntil]

\* Variant of CeilSeconds that rounds down.
FloorSeconds(ms) ==
  ms \div 1000

\* Math.ceil(ms / 1000) for ms > 0
CeilSeconds(ms) ==
  (ms + 999) \div 1000

\* Variant of IsMuted that still mutes at the instant mutedUntil.
IsMutedInclusive(userLimit, t) ==
  userLimit.present /\ userLimit.mutedUntil # 0 /\ t <= userLimit.mutedUntil

\* userLimit?.mutedUntil && now < userLimit.mutedUntil
IsMuted(userLimit, t) ==
  userLimit.present /\ userLimit.mutedUntil # 0 /\ t < userLimit.mutedUntil

\* !userLimit || now > userLimit.resetTime
WindowPassed(userLimit, t) ==
  ~userLimit.present \/ t > userLimit.resetTime

\* Variant of OverLimit with a strict comparison.
OverLimitStrict(userLimit) ==
  userLimit.count > 20

\* userLimit.count >= 20
OverLimit(userLimit) ==
  userLimit.count >= MESSAGE_LIMIT

\* isRateLimited(userId) at time t: the verdict, the remaining time it
\* reports and the entry it leaves in the Map.
IsRateLimited(userLimit, t) ==
  IF IsMuted(userLimit, t)
    THEN [limited |-> TRUE,
          remainingTime |-> CeilSeconds(userLimit.mutedUntil - t),
          entry |-> userLimit]
  ELSE IF WindowPassed(userLimit, t)
    THEN [limited |-> FALSE, remainingTime |-> 0,
          entry |-> Limit(1, t + WINDOW_MS, 0)]
  ELSE IF OverLimit(userLimit)
    THEN [limited |-> TRUE, remainingTime |-> MUTE_SECONDS,
          entry |-> Limit(0, t + WINDOW_MS, t + WINDOW_MS)]
  ELSE [limited |-> FALSE, remainingTime |-> 0,
        entry |-> Limit(userLimit.count + 1, userLimit.resetTime, 0)]

\* Variant of NotifyUser that writes to the registered connection whatever
\* its readyState.
NotifyUserAnyState(reg, rs, uid, msg) ==
  IF Lookup(reg, uid) # NULL
    THEN {SendTo(rs, Lookup(reg, uid), msg, TRUE)}
    ELSE {}

\* const notifyUser = (userId, data) => { ... }: the push of one message to
\* the connection registered for userId, if it is open.
NotifyUser(reg, rs, uid, msg) ==
  IF Reachable(reg, rs, uid)
    THEN {SendTo(rs, Lookup(reg, uid), msg, TRUE)}
    ELSE {}

ChatPush(sender, recipient) ==
  OutMsg("message", sender, recipient, NULL, NULL, FALSE, "")

RateInit ==
  /\ acceptLog = [u \in Senders |-> <<>>]
  /\ now = 0
  /\ userMessageCounts = [u \in Senders |-> NoLimit]
  /\ httpResponse = [status |-> 0, remainingTime |-> 0, sender |-> NULL,
                     persisted |-> FALSE]
  /\ sendsSeen = [u \in Senders |-> 0]
  /\ firstSendAt = [u \in Senders |-> NoTime]
  /\ muteBegan = [u \in Senders |-> NoTime]

\* Time passes between two requests.
ClockStep(d) ==
  /\ now + d <= MaxNow
  /\ now' = now + d
  /\ UNCHANGED <<userMessageCounts, httpResponse, sendsSeen, firstSendAt, muteBegan>>
  /\ UNCHANGED <<relayVars, callVars>>

AdvanceClock(d) ==
  /\ ClockStep(d)
  /\ UNCHANGED acceptLog

\* POST /api/messages by the authenticated sender u to recipient r; validBody
\* is whether insertMessageSchema.parse accepts the body.  For a body that
\* parses, storage.createMessage resolves (the row is stored, both parties
\* are notified, 200) or rejects (500 from the catch block).
HandlePost(u, r, validBody) ==
  LET verdict == IsRateLimited(userMessageCounts[u], now) IN
  /\ userMessageCounts' = [userMessageCounts EXCEPT ![u] = verdict.entry]
  /\ sendsSeen' = [sendsSeen EXCEPT ![u] = IF @ < MaxSends THEN @ + 1 ELSE @]
  /\ firstSendAt' = [firstSendAt EXCEPT ![u] = IF @ = NoTime THEN now ELSE @]
  /\ muteBegan' = [muteBegan EXCEPT ![u] =
                     IF ~verdict.limited THEN NoTime
                     ELSE IF @ = NoTime THEN now ELSE @]
  /\ IF verdict.limited
       THEN /\ httpResponse' = [status |-> 429,
                                remainingTime |-> verdict.remainingTime,
                                sender |-> u, persisted |-> FALSE]
            /\ relayOut' = {}
     ELSE IF ~validBody
       THEN /\ httpResponse' = [status |-> 400, remainingTime |-> 0, sender |-> u,
                                persisted |-> FALSE]
            /\ relayOut' = {}
     ELSE \/ /\ httpResponse' = [status |-> 200, remainingTime |-> 0, sender |-> u,
                                  persisted |-> TRUE]
             /\ relayOut' = NotifyUser(connectedClients, readyState, r, ChatPush(u, r))
                              \cup NotifyUser(connectedClients, readyState, u, ChatPush(u, r))
          \/ /\ httpResponse' = [status |-> 500, remainingTime |-> 0, sender |-> u,
                                  persisted |-> FALSE]
             /\ relayOut' = {}
  /\ relayIn' = [conn |-> NULL, frame |-> MalformedFrame, event |-> "post"]
  /\ UNCHANGED <<now, readyState, closeCode, userId, isAuthenticated,
                 connectedClients, authedAs>>
  /\ UNCHANGED callVars

PostMessage(u, r, validBody) ==
  /\ HandlePost(u, r, validBody)
  /\ UNCHANGED acceptLog

\* The entries of an accept log that lie less than a window before time t.
Recent(log, t) ==
  SelectSeq(log, LAMBDA e : e.at + WINDOW_MS > t)

\* The log after one more send passed the limiter at time t.
Logged(log, t) ==
  LET r == Recent(log, t) IN
  IF r # <<>> /\ r[Len(r)].at = t
    THEN [r EXCEPT ![Len(r)].n = IF @ <= MESSAGE_LIMIT THEN @ + 1 ELSE @]
    ELSE Append(r, [at |-> t, n |-> 1])

\* The clock step and the request, with the accept log kept.
LoggedAdvance(d) ==
  /\ now + d <= MaxBurstNow
  /\ ClockStep(d)
  /\ acceptLog' = [u \in Senders |-> Recent(acceptLog[u], now + d)]

LoggedPost(u, r, validBody) ==
  /\ HandlePost(u, r, validBody)
  /\ acceptLog' = [acceptLog EXCEPT ![u] =
                     IF IsRateLimited(userMessageCounts[u], now).limited
                       THEN Recent(@, now) ELSE Logged(@, now)]

(***************************************************************************)
(* Client call session (src/client/src/hooks/useVoiceCall.ts as used by    *)
(* src/client/src/pages/chat.tsx).  The socket is open throughout.         *)
(***************************************************************************)
MaxPeers == 1

MaxCalls == 1

MaxPcs == 2

MaxStreams == 2

MaxOfferTasks == 1

MaxAnswerTasks == 1

MaxStrangers == 1

\* The other users of the service, as ids in the roster and in frames.
Peers == 1..MaxPeers

Slots == 1..MaxCalls

PcIds == 1..MaxPcs

StreamIds == 1..MaxStreams

OfferTaskIds == 1..MaxOfferTasks

AnswerTaskIds == 1..MaxAnswerTasks

\* What callState.otherUser?.id can be in a closure.
Others == Peers \cup {NULL}

\* otherUser values: null, an element of the roster, or the object literal
\* { id: fromUserId } built by the call_offer handler.
NoUser ==
  [id |-> NULL, bare |-> FALSE]

RosterUser(u) ==
  [id |-> u, bare |-> FALSE]

BareUser(u) ==
  [id |-> u, bare |-> TRUE]

\* The initial state of useState and the state endCall sets.
IdleCallState ==
  [isInCall |-> FALSE, callType |-> "none", otherUser |-> NoUser,
   isMuted |-> FALSE, isSpeakerOn |-> TRUE]

\* The state startCall sets after sending its offer.
OutgoingCallState(user) ==
  [isInCall |-> TRUE, callType |-> "outgoing", otherUser |-> RosterUser(user),
   isMuted |-> FALSE, isSpeakerOn |-> TRUE]

\* users.find(u => u.id === fromUserId) || { id: fromUserId }
CallingUser(roster, from) ==
  IF from \in roster THEN RosterUser(from) ELSE BareUser(from)

\* The updater of the call_offer handler.
IncomingCallState(prev, other) ==
  [prev EXCEPT !.isInCall = TRUE, !.callType = "incoming", !.otherUser = other]

\* The updater of onconnectionstatechange on 'connected'.
ActiveCallState(prev) ==
  [prev EXCEPT !.callType = "active"]

SetCallState(next, fresh) ==
  [dirty |-> TRUE, state |-> next, fresh |-> fresh]

\* Variant of HandlerCallState whose closure knows a counterpart.
HandlerSeesCounterpart ==
  [IdleCallState EXCEPT !.otherUser = RosterUser(1)]

\* socket.onmessage is assigned once, in an effect that runs after the first
\* render only: the handleSignalingMessage it calls, and the users array it
\* passes, are those of the first render.
HandlerCallState ==
  IdleCallState

HandlerUsers ==
  {}

FreePc ==
  [status |-> "free", local |-> FALSE, remote |-> "none", conn |-> "new",
   other |-> NULL]

\* new RTCPeerConnection(...) inside initializePeerConnection; other is the
\* callState.otherUser?.id its handlers closed over.
FreshPc(other) ==
  [FreePc EXCEPT !.status = "open", !.other = other]

ClosedPc ==
  [FreePc EXCEPT !.status = "closed"]

IdleCall ==
  [pos |-> "idle", target |-> NULL, other |-> NULL, pc |-> NULL,
   timer |-> FALSE]

IdleOfferTask ==
  [busy |-> FALSE, pc |-> NULL, from |-> NULL]

IdleAnswerTask ==
  [pos |-> "idle", other |-> NULL, pc |-> NULL]

ClientMsg(type, target) ==
  [type |-> type, targetUserId |-> target]

\* Object identities still held by something that can use them.
PcHeld(p) ==
  \/ pcs[p].status = "open"
  \/ \E k \in Slots : calls[k].pos # "idle" /\ calls[k].pc = p
  \/ \E t \in OfferTaskIds : offerTasks[t].busy /\ offerTasks[t].pc = p
  \/ \E a \in AnswerTaskIds : answerTasks[a].pos # "idle" /\ answerTasks[a].pc = p

NewPcId ==
  CHOOSE p \in PcIds : ~PcHeld(p) /\ \A q \in PcIds : ~PcHeld(q) => p <= q

NewStreamId ==
  CHOOSE s \in StreamIds :
    streams[s] # "live" /\ \A q \in StreamIds : streams[q] # "live" => s <= q

FreeSlot ==
  CHOOSE k \in Slots :
    calls[k].pos = "idle" /\ \A j \in Slots : calls[j].pos = "idle" => k <= j

\* localStreamRef.current.getTracks().forEach(track => track.stop())
StopTracks(ss, ref) ==
  IF ref # NULL THEN [ss EXCEPT ![ref] = "free"] ELSE ss

\* Variant of ClosePeer that leaves the connection as it is.
LeavesPeerOpen(ps, ref) ==
  ps

\* peerConnectionRef.current.close()
ClosePeer(ps, ref) ==
  IF ref # NULL THEN [ps EXCEPT ![ref] = ClosedPc] ELSE ps

\* Variant of EndCallSends that never notifies the counterpart.
EndCallSendsNothing(other) ==
  <<>>

\* The call_end endCall sends: only when its closure's otherUser is set.
EndCallSends(other) ==
  IF other # NULL THEN <<ClientMsg("call_end", other)>> ELSE <<>>

\* endCall of a render whose callState.otherUser had id `other`.
EndCallFrom(ss, sref, ps, other, alsoSent) ==
  /\ streams' = StopTracks(ss, sref)
  /\ localStreamRef' = NULL
  /\ pcs' = ClosePeer(ps, peerConnectionRef)
  /\ peerConnectionRef' = NULL
  /\ clientOut' = alsoSent \o EndCallSends(other)
  /\ pending' = SetCallState(IdleCallState, FALSE)

EndCall(other, alsoSent) ==
  EndCallFrom(streams, localStreamRef, pcs, other, alsoSent)

\* startCall after the availability promise settled: on to getUserMedia, or
\* the early return.
StartCallIgnoresAvailability(call, isAvailable) ==
  [call EXCEPT !.pos = "media"]

StartCallAfterAvailability(call, isAvailable) ==
  IF isAvailable THEN [call EXCEPT !.pos = "media"] ELSE IdleCall

\* The happy path observer.
OffPath ==
  [phase |-> "off", callee |-> NULL]

Along(phases, next) ==
  IF path.phase \in phases THEN [path EXCEPT !.phase = next] ELSE OffPath

CallInit ==
  /\ callState = IdleCallState
  /\ pending = [dirty |-> FALSE, state |-> IdleCallState, fresh |-> FALSE]
  /\ effect = [armed |-> FALSE, other |-> NULL]
  /\ peerConnectionRef = NULL
  /\ localStreamRef = NULL
  /\ pcs = [p \in PcIds |-> FreePc]
  /\ streams = [s \in StreamIds |-> "free"]
  /\ calls = [k \in Slots |-> IdleCall]
  /\ staleTimers = [o \in Others |-> 0]
  /\ offerTasks = [t \in OfferTaskIds |-> IdleOfferTask]
  /\ answerTasks = [a \in AnswerTaskIds |-> IdleAnswerTask]
  /\ alerts = {}
  /\ clientOut = <<>>
  /\ users = {}
  /\ path = [phase |-> "none", callee |-> NULL]
  /\ audioMuted = FALSE
  /\ trackDisabled = {}

serverVars == <<relayVars, rateVars>>

\* fetchUsers resolves: setUsers(fetchedUsers).
UsersFetched ==
  /\ users = {}
  /\ users' = Peers
  /\ alerts' = {}
  /\ clientOut' = <<>>
  /\ UNCHANGED <<callState, pending, effect, peerConnectionRef, localStreamRef,
                 pcs, streams, calls, staleTimers, offerTasks, path>>
  /\ UNCHANGED <<serverVars, audioMuted, trackDisabled, answerTasks>>

\* The user presses the call button for the selected roster entry `user`
\* (enabled while the rendered callState.isInCall is false): startCall up to
\* its first await.
UserStartCall(user) ==
  /\ user \in users
  /\ ~callState.isInCall
  /\ \E k \in Slots : calls[k].pos = "idle"
  /\ calls' = [calls EXCEPT ![FreeSlot] =
                 [IdleCall EXCEPT !.pos = "avail", !.target = user,
                                  !.other = callState.otherUser.id]]
  /\ clientOut' = <<ClientMsg("check_user_availability", user)>>
  /\ alerts' = {}
  /\ path' = IF path.phase = "none"
               THEN [phase |-> "calling", callee |-> user] ELSE OffPath
  /\ UNCHANGED <<callState, pending, effect, peerConnectionRef, localStreamRef,
                 pcs, streams, staleTimers, offerTasks>>
  /\ UNCHANGED <<serverVars, audioMuted, trackDisabled, users, answerTasks>>

\* A user_availability frame for `user` arrives: every availabilityHandler
\* waiting for that user resolves its promise with message.available, and
\* the invocation continues to its next await or returns.
AvailabilityReply(user, available) ==
  LET hit == {k \in Slots : calls[k].pos = "avail" /\ calls[k].target = user} IN
  /\ hit # {}
  /\ calls' = [k \in Slots |->
                 IF k \in hit
                   THEN StartCallAfterAvailability(calls[k], available)
                   ELSE calls[k]]
  /\ alerts' = IF ~available THEN {"unavailable"} ELSE {}
  /\ clientOut' = <<>>
  /\ path' = IF available THEN Along({"calling"}, "calling") ELSE OffPath
  /\ UNCHANGED <<callState, pending, effect, peerConnectionRef, localStreamRef,
                 pcs, streams, staleTimers, offerTasks>>
  /\ UNCHANGED <<serverVars, audioMuted, trackDisabled, users, answerTasks>>

\* The 5000 ms timer of invocation k fires first: resolve(false).
AvailabilityTimeout(k) ==
  /\ calls[k].pos = "avail"
  /\ calls' = [calls EXCEPT ![k] = StartCallAfterAvailability(@, FALSE)]
  /\ alerts' = {"unavailable"}
  /\ clientOut' = <<>>
  /\ path' = OffPath
  /\ UNCHANGED <<callState, pending, effect, peerConnectionRef, localStreamRef,
                 pcs, streams, staleTimers, offerTasks>>
  /\ UNCHANGED <<serverVars, audioMuted, trackDisabled, users, answerTasks>>

\* getUserMedia resolves: the stream goes into localStreamRef, a peer
\* connection is created into peerConnectionRef, the 15000 ms timer is armed
\* and the invocation awaits createOffer.
MediaGranted(k) ==
  /\ calls[k].pos = "media"
  /\ \E s \in StreamIds : streams[s] # "live"
  /\ \E p \in PcIds : ~PcHeld(p)
  /\ streams' = [streams EXCEPT ![NewStreamId] = "live"]
  /\ localStreamRef' = NewStreamId
  /\ pcs' = [pcs EXCEPT ![NewPcId] = FreshPc(calls[k].other)]
  /\ peerConnectionRef' = NewPcId
  /\ calls' = [calls EXCEPT ![k].pos = "offer", ![k].pc = NewPcId,
                            ![k].timer = TRUE]
  /\ alerts' = {}
  /\ clientOut' = <<>>
  /\ path' = Along({"calling"}, "calling")
  /\ UNCHANGED <<callState, pending, effect, staleTimers, offerTasks>>
  /\ UNCHANGED <<serverVars, audioMuted, users, answerTasks>>
  /\ trackDisabled' = trackDisabled \ {NewStreamId}

\* The catch block of startCall: alert, then endCall.  A 15000 ms timer the
\* invocation had armed stays armed.
StartCallFails(k) ==
  /\ staleTimers[calls[k].other] < MaxCalls
  /\ alerts' = {"failed"}
  /\ EndCall(calls[k].other, <<>>)
  /\ calls' = [calls EXCEPT ![k] = IdleCall]
  /\ staleTimers' = IF calls[k].timer
                      THEN [staleTimers EXCEPT ![calls[k].other] = @ + 1]
                      ELSE staleTimers
  /\ path' = OffPath
  /\ UNCHANGED <<callState, effect, offerTasks>>

\* getUserMedia rejects.
MediaDenied(k) ==
  /\ calls[k].pos = "media"
  /\ StartCallFails(k)
  /\ UNCHANGED <<serverVars, audioMuted, trackDisabled, users, answerTasks>>

\* createOffer settles: it rejects on a closed connection.
OfferCreated(k) ==
  /\ calls[k].pos = "offer"
  /\ IF pcs[calls[k].pc].status = "open"
       THEN /\ calls' = [calls EXCEPT ![k].pos = "setLocal"]
            /\ alerts' = {}
            /\ clientOut' = <<>>
            /\ path' = Along({"calling"}, "calling")
            /\ UNCHANGED <<callState, pending, effect, peerConnectionRef,
                           localStreamRef, pcs, streams, staleTimers,
                           offerTasks>>
       ELSE StartCallFails(k)
  /\ UNCHANGED <<serverVars, audioMuted, trackDisabled, users, answerTasks>>

\* setLocalDescription settles: on success the timer is cleared, call_offer
\* is sent and the outgoing state is set.
LocalDescriptionSet(k) ==
  /\ calls[k].pos = "setLocal"
  /\ IF pcs[calls[k].pc].status = "open"
       THEN /\ pcs' = [pcs EXCEPT ![calls[k].pc].local = TRUE]
            /\ calls' = [calls EXCEPT ![k] = IdleCall]
            /\ clientOut' = <<ClientMsg("call_offer", calls[k].target)>>
            /\ pending' = SetCallState(OutgoingCallState(calls[k].target), FALSE)
            /\ alerts' = {}
            /\ path' = Along({"calling"}, "offered")
            /\ UNCHANGED <<callState, effect, peerConnectionRef,
                           localStreamRef, streams, staleTimers, offerTasks>>
       ELSE StartCallFails(k)
  /\ UNCHANGED <<serverVars, audioMuted, trackDisabled, users, answerTasks>>

\* The 15000 ms timer of a running invocation fires.
OfferTimeout(k) ==
  /\ calls[k].timer
  /\ EndCall(calls[k].other, <<>>)
  /\ alerts' = {"timeout"}
  /\ calls' = [calls EXCEPT ![k].timer = FALSE]
  /\ path' = OffPath
  /\ UNCHANGED <<callState, effect, staleTimers, offerTasks>>
  /\ UNCHANGED <<serverVars, audioMuted, trackDisabled, users, answerTasks>>

\* A 15000 ms timer left behind by a failed invocation fires.
StaleOfferTimeout(o) ==
  /\ staleTimers[o] > 0
  /\ EndCall(o, <<>>)
  /\ alerts' = {"timeout"}
  /\ staleTimers' = [staleTimers EXCEPT ![o] = @ - 1]
  /\ path' = OffPath
  /\ UNCHANGED <<callState, effect, calls, offerTasks>>
  /\ UNCHANGED <<serverVars, audioMuted, trackDisabled, users, answerTasks>>

\* Whether a commit changes the identity of callState.otherUser, and with it
\* the identity of endCall (useCallback deps [callState.otherUser, wsRef]).
EndCallChanged(prev, next, fresh) ==
  fresh \/ next.otherUser # prev.otherUser

\* React renders and commits the pending state.  When endCall changed, the
\* effect useEffect(() => () => endCall(), [endCall]) is re-run: the cleanup
\* of the previous commit, holding the previous endCall, is scheduled.
Render ==
  /\ pending.dirty
  /\ ~effect.armed
  /\ callState' = pending.state
  /\ pending' = [pending EXCEPT !.dirty = FALSE, !.fresh = FALSE]
  /\ effect' = IF EndCallChanged(callState, pending.state, pending.fresh)
                 THEN [armed |-> TRUE, other |-> callState.otherUser.id]
                 ELSE effect
  /\ alerts' = {}
  /\ clientOut' = <<>>
  /\ UNCHANGED <<peerConnectionRef, localStreamRef, pcs, streams, calls,
                 staleTimers, offerTasks, path>>
  /\ UNCHANGED <<serverVars, audioMuted, trackDisabled, users, answerTasks>>

\* The scheduled cleanup runs the endCall of the previous commit.
FlushEffects ==
  /\ effect.armed
  /\ EndCall(effect.other, <<>>)
  /\ effect' = [armed |-> FALSE, other |-> NULL]
  /\ alerts' = {}
  /\ UNCHANGED <<callState, calls, staleTimers, offerTasks, path>>
  /\ UNCHANGED <<serverVars, audioMuted, trackDisabled, users, answerTasks>>

\* A call_offer from `from` reaches handleSignalingMessage: unless the
\* handler's callState is 'outgoing' it creates a peer connection into
\* peerConnectionRef and awaits setRemoteDescription(offer).
InboundOfferBegin(t, from) ==
  /\ ~offerTasks[t].busy
  /\ HandlerCallState.callType # "outgoing"
  /\ \E p \in PcIds : ~PcHeld(p)
  /\ pcs' = [pcs EXCEPT ![NewPcId] = FreshPc(HandlerCallState.otherUser.id)]
  /\ peerConnectionRef' = NewPcId
  /\ offerTasks' = [offerTasks EXCEPT ![t] =
                      [busy |-> TRUE, pc |-> NewPcId, from |-> from]]
  /\ alerts' = {}
  /\ clientOut' = <<>>
  /\ path' = OffPath
  /\ UNCHANGED <<callState, pending, effect, localStreamRef, streams, calls,
                 staleTimers>>
  /\ UNCHANGED <<serverVars, audioMuted, trackDisabled, users, answerTasks>>

\* setRemoteDescription(offer) settles: on success the incoming state is
\* set; on a connection closed meanwhile the handler's promise rejects.
InboundOfferEnd(t) ==
  LET p == offerTasks[t].pc
      other == CallingUser(HandlerUsers, offerTasks[t].from) IN
  /\ offerTasks[t].busy
  /\ IF pcs[p].status = "open"
       THEN /\ pcs' = [pcs EXCEPT ![p].remote = "offer"]
            /\ pending' = SetCallState(IncomingCallState(pending.state, other),
                                       other.bare)
       ELSE UNCHANGED <<pcs, pending>>
  /\ offerTasks' = [offerTasks EXCEPT ![t] = IdleOfferTask]
  /\ alerts' = IF pcs[p].status = "open" THEN {} ELSE {"unhandled"}
  /\ clientOut' = <<>>
  /\ path' = OffPath
  /\ UNCHANGED <<callState, effect, peerConnectionRef, localStreamRef, streams,
                 calls, staleTimers>>
  /\ UNCHANGED <<serverVars, audioMuted, trackDisabled, users, answerTasks>>

\* Variant of AcceptsAnswer that does not ask for a local offer.
AcceptsAnswerWithoutOffer(ps, ref) ==
  ref # NULL /\ ps[ref].status = "open"

\* Whether setRemoteDescription(answer) is accepted by the connection in
\* peerConnectionRef: it must be open and hold a local offer.
AcceptsAnswer(ps, ref) ==
  /\ ref # NULL
  /\ ps[ref].status = "open"
  /\ ps[ref].local
  /\ ps[ref].remote = "none"

\* A call_answer from `from` reaches handleSignalingMessage: with a
\* connection in peerConnectionRef it is handed to setRemoteDescription,
\* whose rejection nothing handles.
InboundAnswer(from) ==
  /\ pcs' = IF AcceptsAnswer(pcs, peerConnectionRef)
              THEN [pcs EXCEPT ![peerConnectionRef].remote = "answer"]
              ELSE pcs
  /\ alerts' = IF peerConnectionRef # NULL
                    /\ ~AcceptsAnswer(pcs, peerConnectionRef)
                 THEN {"unhandled"} ELSE {}
  /\ clientOut' = <<>>
  /\ path' = IF from = path.callee THEN Along({"offered"}, "answered")
               ELSE OffPath
  /\ UNCHANGED <<callState, pending, effect, peerConnectionRef, localStreamRef,
                 streams, calls, staleTimers, offerTasks>>
  /\ UNCHANGED <<serverVars, audioMuted, trackDisabled, users, answerTasks>>

\* A call_end or call_error reaches handleSignalingMessage: endCall().
InboundEnd(from, type) ==
  /\ EndCall(HandlerCallState.otherUser.id, <<>>)
  /\ alerts' = {}
  /\ path' = OffPath
  /\ UNCHANGED <<callState, effect, calls, staleTimers, offerTasks>>
  /\ UNCHANGED <<serverVars, audioMuted, trackDisabled, users, answerTasks>>

\* onconnectionstatechange of connection p with connectionState 'connected'.
PcConnected(p) ==
  /\ pcs[p].status = "open"
  /\ pcs[p].local
  /\ pcs[p].remote # "none"
  /\ pcs[p].conn = "new"
  /\ pcs' = [pcs EXCEPT ![p].conn = "connected"]
  /\ pending' = SetCallState(ActiveCallState(pending.state), pending.fresh)
  /\ alerts' = {}
  /\ clientOut' = <<>>
  /\ path' = Along({"answered"}, "connected")
  /\ UNCHANGED <<callState, effect, peerConnectionRef, localStreamRef, streams,
                 calls, staleTimers, offerTasks>>
  /\ UNCHANGED <<serverVars, audioMuted, trackDisabled, users, answerTasks>>

\* onconnectionstatechange of connection p with 'disconnected' or 'failed':
\* the endCall that p's handler closed over.
PcFailed(p) ==
  /\ pcs[p].status = "open"
  /\ pcs[p].local
  /\ pcs[p].remote # "none"
  /\ pcs[p].conn # "failed"
  /\ EndCallFrom(streams, localStreamRef, [pcs EXCEPT ![p].conn = "failed"],
                 pcs[p].other, <<>>)
  /\ alerts' = {}
  /\ path' = OffPath
  /\ UNCHANGED <<callState, effect, calls, staleTimers, offerTasks>>
  /\ UNCHANGED <<serverVars, audioMuted, trackDisabled, users, answerTasks>>

\* The user ends the call from the call dialog (shown while the rendered
\* callState.isInCall is true).
UserEndCall ==
  /\ callState.isInCall
  /\ EndCall(callState.otherUser.id, <<>>)
  /\ alerts' = {}
  /\ path' = Along({"connected"}, "hungup")
  /\ UNCHANGED <<callState, effect, calls, staleTimers, offerTasks>>
  /\ UNCHANGED <<serverVars, audioMuted, trackDisabled, users, answerTasks>>

\* The mute and speaker buttons are part of the call dialog's controls for
\* an active call.  A click is handled after the effects of the last commit
\* have run.
ControlsShown(state) ==
  state.isInCall /\ state.callType = "active"

\* audioTrack.enabled = !audioTrack.enabled on the stream in localStreamRef
ToggledTrack(disabled, ref) ==
  IF ref \in disabled THEN disabled \ {ref} ELSE disabled \cup {ref}

\* toggleMute: flips the track of the stream in localStreamRef and reports
\* isMuted: !audioTrack.enabled; nothing happens without a stream.
ToggleMute ==
  /\ ControlsShown(callState)
  /\ ~effect.armed
  /\ IF localStreamRef # NULL
       THEN /\ trackDisabled' = ToggledTrack(trackDisabled, localStreamRef)
            /\ pending' = SetCallState(
                             [pending.state EXCEPT
                                !.isMuted = (localStreamRef \in trackDisabled')],
                             pending.fresh)
       ELSE UNCHANGED <<trackDisabled, pending>>
  /\ alerts' = {}
  /\ clientOut' = <<>>
  /\ UNCHANGED <<callState, effect, peerConnectionRef, localStreamRef, pcs,
                 streams, calls, staleTimers, offerTasks, answerTasks, path>>
  /\ UNCHANGED <<serverVars, audioMuted, users>>

\* toggleSpeaker: flips audioRef.current.muted and reports
\* isSpeakerOn: !audioRef.current.muted.
ToggleSpeaker ==
  /\ ControlsShown(callState)
  /\ ~effect.armed
  /\ audioMuted' = ~audioMuted
  /\ pending' = SetCallState([pending.state EXCEPT !.isSpeakerOn = ~audioMuted'],
                             pending.fresh)
  /\ alerts' = {}
  /\ clientOut' = <<>>
  /\ UNCHANGED <<callState, effect, peerConnectionRef, localStreamRef, pcs,
                 streams, calls, staleTimers, offerTasks, answerTasks, path>>
  /\ UNCHANGED <<serverVars, trackDisabled, users>>

\* if (!callState.otherUser || !peerConnectionRef.current) return;
AnswerCallReturns(state, ref) ==
  state.otherUser = NoUser \/ ref = NULL

\* createAnswer and setLocalDescription(answer) need an open connection that
\* holds a remote offer and no local description.
AcceptsLocalAnswer(ps, p) ==
  /\ ps[p].status = "open"
  /\ ps[p].remote = "offer"
  /\ ~ps[p].local

\* The user presses Answer in the call dialog (shown while the rendered
\* callState is an incoming call): answerCall up to its first await.
UserAnswerCall(a) ==
  /\ callState.isInCall
  /\ callState.callType = "incoming"
  /\ answerTasks[a].pos = "idle"
  /\ answerTasks' =
       IF AnswerCallReturns(callState, peerConnectionRef)
         THEN answerTasks
         ELSE [answerTasks EXCEPT ![a] =
                 [IdleAnswerTask EXCEPT !.pos = "media",
                                        !.other = callState.otherUser.id]]
  /\ alerts' = {}
  /\ clientOut' = <<>>
  /\ path' = OffPath
  /\ UNCHANGED <<callState, pending, effect, peerConnectionRef, localStreamRef,
                 pcs, streams, calls, staleTimers, offerTasks>>
  /\ UNCHANGED <<serverVars, audioMuted, trackDisabled, users>>

\* The catch block of answerCall: endCall().
AnswerCallFails(a, ss, sref) ==
  /\ EndCallFrom(ss, sref, pcs, answerTasks[a].other, <<>>)
  /\ answerTasks' = [answerTasks EXCEPT ![a] = IdleAnswerTask]

\* getUserMedia of answerCall resolves: the stream goes into localStreamRef
\* and createAnswer is called on peerConnectionRef.current, which throws
\* when the ref is null.
AnswerMediaGranted(a) ==
  /\ answerTasks[a].pos = "media"
  /\ \E s \in StreamIds : streams[s] # "live"
  /\ IF peerConnectionRef = NULL
       THEN AnswerCallFails(a, [streams EXCEPT ![NewStreamId] = "live"],
                            NewStreamId)
       ELSE /\ streams' = [streams EXCEPT ![NewStreamId] = "live"]
            /\ localStreamRef' = NewStreamId
            /\ answerTasks' = [answerTasks EXCEPT ![a].pos = "answer",
                                                  ![a].pc = peerConnectionRef]
            /\ clientOut' = <<>>
            /\ UNCHANGED <<pending, pcs, peerConnectionRef>>
  /\ alerts' = {}
  /\ path' = OffPath
  /\ UNCHANGED <<callState, effect, calls, staleTimers, offerTasks>>
  /\ UNCHANGED <<serverVars, audioMuted, users>>
  /\ trackDisabled' = trackDisabled \ {NewStreamId}

\* getUserMedia of answerCall rejects.
AnswerMediaDenied(a) ==
  /\ answerTasks[a].pos = "media"
  /\ AnswerCallFails(a, streams, localStreamRef)
  /\ alerts' = {}
  /\ path' = OffPath
  /\ UNCHANGED <<callState, effect, calls, staleTimers, offerTasks>>
  /\ UNCHANGED <<serverVars, audioMuted, trackDisabled, users>>

\* createAnswer settles; on success setLocalDescription is called on
\* peerConnectionRef.current, read again.
AnswerCreated(a) ==
  /\ answerTasks[a].pos = "answer"
  /\ IF AcceptsLocalAnswer(pcs, answerTasks[a].pc) /\ peerConnectionRef # NULL
       THEN /\ answerTasks' = [answerTasks EXCEPT ![a].pos = "setLocal",
                                                  ![a].pc = peerConnectionRef]
            /\ clientOut' = <<>>
            /\ UNCHANGED <<pending, pcs, peerConnectionRef, streams,
                           localStreamRef>>
       ELSE AnswerCallFails(a, streams, localStreamRef)
  /\ alerts' = {}
  /\ path' = OffPath
  /\ UNCHANGED <<callState, effect, calls, staleTimers, offerTasks>>
  /\ UNCHANGED <<serverVars, audioMuted, trackDisabled, users>>

\* setLocalDescription(answer) settles: on success call_answer is sent to the
\* otherUser of the invocation's render and the state is set to active.
AnswerLocalDescriptionSet(a) ==
  /\ answerTasks[a].pos = "setLocal"
  /\ IF AcceptsLocalAnswer(pcs, answerTasks[a].pc)
       THEN /\ pcs' = [pcs EXCEPT ![answerTasks[a].pc].local = TRUE]
            /\ clientOut' = <<ClientMsg("call_answer", answerTasks[a].other)>>
            /\ pending' = SetCallState(ActiveCallState(pending.state),
                                       pending.fresh)
            /\ answerTasks' = [answerTasks EXCEPT ![a] = IdleAnswerTask]
            /\ UNCHANGED <<peerConnectionRef, streams, localStreamRef>>
       ELSE AnswerCallFails(a, streams, localStreamRef)
  /\ alerts' = {}
  /\ path' = OffPath
  /\ UNCHANGED <<callState, effect, calls, staleTimers, offerTasks>>
  /\ UNCHANGED <<serverVars, audioMuted, trackDisabled, users>>

\* What rejectCall sends itself, before it calls endCall.
RejectCallSends(state) ==
  IF state.otherUser # NoUser
    THEN <<ClientMsg("call_end", state.otherUser.id)>> ELSE <<>>

\* The user presses Reject in the call dialog (shown while the rendered
\* callState is an incoming call).
UserRejectCall ==
  /\ callState.isInCall
  /\ callState.callType = "incoming"
  /\ EndCall(callState.otherUser.id, RejectCallSends(callState))
  /\ alerts' = {}
  /\ path' = OffPath
  /\ UNCHANGED <<callState, effect, calls, staleTimers, offerTasks>>
  /\ UNCHANGED <<serverVars, audioMuted, trackDisabled, users, answerTasks>>

\* Variant of IceRejected that uses peerConnectionRef without testing it.
IceRejectedWithoutPc(ps, ref) ==
  \/ ref = NULL
  \/ ~(ps[ref].status = "open" /\ ps[ref].remote # "none")

\* Whether the ice_candidate handler ends in a rejection: only with a
\* connection in peerConnectionRef is addIceCandidate called, and it needs an
\* open connection with a remote description.
IceRejected(ps, ref) ==
  /\ ref # NULL
  /\ ~(ps[ref].status = "open" /\ ps[ref].remote # "none")

\* An ice_candidate from `from` reaches handleSignalingMessage: with a
\* connection in peerConnectionRef it is handed to addIceCandidate, whose
\* rejection nothing handles; nothing of the session changes either way.
InboundIce(from) ==
  /\ alerts' = IF IceRejected(pcs, peerConnectionRef) THEN {"unhandled"}
                                                      ELSE {}
  /\ clientOut' = <<>>
  /\ path' = OffPath
  /\ UNCHANGED <<callState, pending, effect, peerConnectionRef, localStreamRef,
                 pcs, streams, calls, staleTimers, offerTasks>>
  /\ UNCHANGED <<serverVars, audioMuted, trackDisabled, users, answerTasks>>

\* onicecandidate of connection p with a candidate: the frame carries the
\* callState.otherUser?.id that initializePeerConnection closed over.
\* Candidates are gathered once a local description is set.
PcIceCandidate(p) ==
  /\ pcs[p].status = "open"
  /\ pcs[p].local
  /\ clientOut' = <<ClientMsg("ice_candidate", pcs[p].other)>>
  /\ alerts' = {}
  /\ path' = OffPath
  /\ UNCHANGED <<callState, pending, effect, peerConnectionRef, localStreamRef,
                 pcs, streams, calls, staleTimers, offerTasks>>
  /\ UNCHANGED <<serverVars, audioMuted, trackDisabled, users, answerTasks>>

vars == <<relayVars, rateVars, callVars>>

RelayNext ==
  \/ \E c \in Conns : Connect(c)
  \/ \E c \in Conns, m \in Frames, writeOk \in BOOLEAN : OnMessage(c, m, writeOk)
  \/ \E c \in Conns : OnClose(c)
  \/ \E type \in BroadcastTypes, uid \in Users, ok \in SUBSET Conns :
       BroadcastToAllClients(type, uid, ok)

RateNext ==
  \/ \E d \in ClockSteps : AdvanceClock(d)
  \/ \E u \in Senders, r \in Users, validBody \in BOOLEAN : PostMessage(u, r, validBody)

\* The fromUserId values of inbound call_answer, ice_candidate, call_end and
\* call_error frames: the relay stamps the id of whichever authenticated
\* user sent the frame, a roster user or any other.
FromIds ==
  Peers \cup ((MaxPeers + 1)..(MaxPeers + MaxStrangers))

CallNext ==
  \/ UsersFetched
  \/ \E user \in Peers : UserStartCall(user)
  \/ \E user \in Peers, available \in BOOLEAN : AvailabilityReply(user, available)
  \/ \E k \in Slots : AvailabilityTimeout(k)
  \/ \E k \in Slots : MediaGranted(k)
  \/ \E k \in Slots : MediaDenied(k)
  \/ \E k \in Slots : OfferCreated(k)
  \/ \E k \in Slots : LocalDescriptionSet(k)
  \/ \E k \in Slots : OfferTimeout(k)
  \/ \E o \in Others : StaleOfferTimeout(o)
  \/ Render
  \/ FlushEffects
  \/ \E t \in OfferTaskIds, from \in Peers : InboundOfferBegin(t, from)
  \/ \E t \in OfferTaskIds : InboundOfferEnd(t)
  \/ \E from \in FromIds : InboundAnswer(from)
  \/ \E from \in FromIds, type \in {"call_end", "call_error"} : InboundEnd(from, type)
  \/ \E p \in PcIds : PcConnected(p)
  \/ \E p \in PcIds : PcFailed(p)
  \/ UserEndCall
  \/ \E a \in AnswerTaskIds : UserAnswerCall(a)
  \/ \E a \in AnswerTaskIds : AnswerMediaGranted(a)
  \/ \E a \in AnswerTaskIds : AnswerMediaDenied(a)
  \/ \E a \in AnswerTaskIds : AnswerCreated(a)
  \/ \E a \in AnswerTaskIds : AnswerLocalDescriptionSet(a)
  \/ UserRejectCall
  \/ \E from \in FromIds : InboundIce(from)
  \/ \E p \in PcIds : PcIceCandidate(p)

Init == RelayInit /\ RateInit /\ CallInit

SpecRelay == Init /\ [][RelayNext]_vars

\* What the relay owes a transport without a further frame from it: the
\* closing handshake that ws.close started runs to its 'close' event.  No
\* other relay step is scheduled for a transport: wss.on('connection')
\* installs a 'message' and a 'close' listener and no timer.
RelayFairness ==
  \A c \in Conns : WF_vars(readyState[c] = "CLOSING" /\ OnClose(c))

SpecRelayLive == SpecRelay /\ RelayFairness

SpecRate == Init /\ [][RateNext]_vars

BurstNext ==
  \/ \E d \in ClockSteps : LoggedAdvance(d)
  \/ \E u \in Senders, r \in Users, validBody \in BOOLEAN :
       LoggedPost(u, r, validBody)

SpecBurst == Init /\ [][BurstNext]_vars

\* The chat send path next to the registry it pushes through: transports
\* connect, authenticate and close while messages are posted.
ChatNext ==
  \/ \E c \in Conns : Connect(c)
  \/ \E c \in Conns, m \in AuthFrames, writeOk \in BOOLEAN : OnMessage(c, m, writeOk)
  \/ \E c \in Conns : OnClose(c)
  \/ \E u \in Senders, r \in Users, validBody \in BOOLEAN : PostMessage(u, r, validBody)

SpecChat == Init /\ [][ChatNext]_vars

\* The user routes next to the registry they broadcast through.
PresenceNext ==
  \/ \E c \in Conns : Connect(c)
  \/ \E c \in Conns, m \in AuthFrames, writeOk \in BOOLEAN : OnMessage(c, m, writeOk)
  \/ \E c \in Conns : OnClose(c)
  \/ \E route \in CreateRoutes \cup UpdateRoutes, uid \in Users, stored \in BOOLEAN,
        ok \in SUBSET Conns : UserRoute(route, uid, stored, ok)

SpecPresence == Init /\ [][PresenceNext]_vars

SpecCall == Init /\ [][CallNext]_vars

\* The caller's side of the call session, with the dialog's mute and speaker
\* buttons: calls are placed, answered, connected and ended by either party.
ToggleNext ==
  \/ UsersFetched
  \/ \E user \in Peers : UserStartCall(user)
  \/ \E user \in Peers, available \in BOOLEAN : AvailabilityReply(user, available)
  \/ \E k \in Slots : MediaGranted(k)
  \/ \E k \in Slots : OfferCreated(k)
  \/ \E k \in Slots : LocalDescriptionSet(k)
  \/ Render
  \/ FlushEffects
  \/ \E from \in Peers : InboundAnswer(from)
  \/ \E from \in Peers : InboundEnd(from, "call_end")
  \/ \E p \in PcIds : PcConnected(p)
  \/ UserEndCall
  \/ ToggleMute
  \/ ToggleSpeaker

SpecToggle == Init /\ [][ToggleNext]_vars

(***************************************************************************)
(* Properties of the relay, checked under SpecRelay.                       *)
(***************************************************************************)

\* The last relay step handled a frame of one of the given types.
Handled(types) ==
  relayIn.event = "message" /\ relayIn.frame.type \in types

\* The step being taken hands the relay a frame of one of the given types.
Handling(types) ==
  relayIn'.event = "message" /\ relayIn'.frame.type \in types

ValidToken(tok) ==
  tok.present /\ tok.status = "valid"

\* The last step wrote a message of this type to transport c.
Wrote(c, type) ==
  \E o \in relayOut : o.to = c /\ o.msg.type = type

\* The last step's message of this type reached transport c.
Delivered(c, type) ==
  \E o \in relayOut : o.to = c /\ o.msg.type = type /\ o.delivered

\* C1: for a call_offer, call_answer or ice_candidate from an authenticated
\* sender exactly one of two things happens: the message is delivered to the
\* connection registered for targetUserId, or the relay replies call_error to
\* the sender; the reply is made whenever the target is not registered, not
\* open, or the write to it fails.
C1_ForwardOrError ==
  (Handled(SignalTypes) /\ isAuthenticated[relayIn.conn]) =>
    LET target == Lookup(connectedClients, relayIn.frame.targetUserId)
        forwarded == target # NULL /\ Delivered(target, relayIn.frame.type)
        replied == Wrote(relayIn.conn, "call_error")
    IN  /\ forwarded # replied
        /\ ~forwarded => replied

\* C2: every forwarded signaling message carries as fromUserId the identity
\* of the token its sender last authenticated with, whatever the client wrote
\* into the frame.
C2_FromStamped ==
  \A o \in relayOut :
    o.msg.type \in ForwardedTypes =>
      /\ relayIn.event = "message"
      /\ authedAs[relayIn.conn] # NULL
      /\ o.msg.fromUserId = authedAs[relayIn.conn]

\* A forwarded call_offer reached its target although the client had written
\* another user's id into fromUserId.
C2_Witness ==
  /\ Handled({"call_offer"})
  /\ relayIn.frame.fromUserId # NULL
  /\ relayIn.frame.fromUserId # authedAs[relayIn.conn]
  /\ \E o \in relayOut :
       /\ o.delivered
       /\ o.to # relayIn.conn
       /\ o.msg.type = "call_offer"
       /\ o.msg.fromUserId = authedAs[relayIn.conn]

\* C3: an auth frame authenticates the connection, registers it under the
\* token's identity and is answered auth_success exactly when the token
\* verifies; otherwise the transport is closed with code 1008 and the
\* registry is unchanged.  A connection becomes authenticated only in a step
\* that registers it and answers auth_success.
C3_AuthIffVerified ==
  [][ /\ Handling({"auth"}) =>
           LET c == relayIn'.conn
               tok == relayIn'.frame.token
           IN  IF ValidToken(tok)
                 THEN /\ isAuthenticated'[c]
                      /\ userId'[c] = tok.userId
                      /\ connectedClients'[tok.userId] = c
                      /\ \E o \in relayOut' : o.to = c /\ o.msg.type = "auth_success"
                      /\ readyState'[c] = readyState[c]
                 ELSE /\ connectedClients' = connectedClients
                      /\ isAuthenticated'[c] = isAuthenticated[c]
                      /\ relayOut' = {}
                      /\ readyState'[c] = "CLOSING"
                      /\ closeCode'[c] = POLICY_VIOLATION
      /\ \A c \in Conns :
           (~isAuthenticated[c] /\ isAuthenticated'[c]) =>
             /\ Handling({"auth"}) /\ relayIn'.conn = c
             /\ userId'[c] # NULL
             /\ connectedClients'[userId'[c]] = c
             /\ \E o \in relayOut' : o.to = c /\ o.msg.type = "auth_success"
    ]_vars

\* One transport was just closed with 1008 for a token that does not verify,
\* while another one is authenticated and registered.
C3_Witness ==
  /\ Handled({"auth"})
  /\ relayIn.frame.token.present
  /\ relayIn.frame.token.status = "expired"
  /\ readyState[relayIn.conn] = "CLOSING"
  /\ closeCode[relayIn.conn] = POLICY_VIOLATION
  /\ ~isAuthenticated[relayIn.conn]
  /\ \E c \in Conns \ {relayIn.conn} :
       /\ isAuthenticated[c]
       /\ readyState[c] = "OPEN"
       /\ connectedClients[relayIn.frame.token.userId] = c

C5_RegistryLookup ==
  [][ /\ (Handling({"auth"}) /\ ValidToken(relayIn'.frame.token)) =>
           connectedClients'[relayIn'.frame.token.userId] = relayIn'.conn
      /\ \A i \in Users :
           (connectedClients'[i] # connectedClients[i] /\ connectedClients'[i] # NULL) =>
             /\ Handling({"auth"})
             /\ ValidToken(relayIn'.frame.token)
             /\ relayIn'.frame.token.userId = i
             /\ relayIn'.conn = connectedClients'[i]
      /\ Handling(ForwardedTypes) =>
           \A o \in relayOut' :
             o.msg.type \in ForwardedTypes =>
               /\ relayIn'.frame.targetUserId \in Users
               /\ o.to = connectedClients[relayIn'.frame.targetUserId]
      /\ (relayIn'.event = "close" /\ userId[relayIn'.conn] # NULL) =>
           connectedClients'[userId[relayIn'.conn]] = NULL
    ]_vars

\* Two open transports hold the same identity, the later one is lookup(i),
\* and a message for i has just been delivered to it by a step that wrote
\* nothing to the earlier one.
C5_Witness ==
  \E i \in Users, c1, c2 \in Conns :
    /\ c1 # c2
    /\ userId[c1] = i /\ userId[c2] = i
    /\ readyState[c1] = "OPEN" /\ readyState[c2] = "OPEN"
    /\ connectedClients[i] = c2
    /\ Handled({"call_offer"})
    /\ relayIn.frame.targetUserId = i
    /\ Delivered(c2, "call_offer")
    /\ \A o \in relayOut : o.to # c1

\* C6: when a transport closes, the registry entry of its identity is
\* removed only if it refers to that transport; an entry that a later
\* connection of the same identity has taken over stays.
C6_StaleCloseKeepsEntry ==
  [][ \A i \in Users :
        (relayIn'.event = "close" /\ connectedClients[i] # relayIn'.conn) =>
          connectedClients'[i] = connectedClients[i]
    ]_vars

(***************************************************************************)
(* Properties of the rate limiter, checked under SpecRate.                 *)
(***************************************************************************)

\* The step being taken is a send of sender u.
Sending(u) ==
  /\ relayIn'.event = "post"
  /\ httpResponse'.sender = u
  /\ now' = now
  /\ sendsSeen'[u] # sendsSeen[u] \/ sendsSeen[u] = MaxSends

\* The step being taken is the n-th send of sender u.
NthSend(u, n) ==
  /\ Sending(u)
  /\ sendsSeen[u] = n - 1
  /\ sendsSeen'[u] = n

\* C7: of a sender that starts with no rate-limit state, sends 1..20 made
\* within 60 s of the first are accepted, and send 21 made within those 60 s
\* is rejected with remaining = 60 (status 429), begins a mute of 60 s and
\* resets count to 0.
C7_TwentyThenMute ==
  [][ \A u \in Senders :
        \A n \in 1..(MESSAGE_LIMIT + 1) :
          (NthSend(u, n) /\ now <= firstSendAt'[u] + WINDOW_MS) =>
            IF n <= MESSAGE_LIMIT
              THEN /\ httpResponse'.status # 429
                   /\ userMessageCounts'[u].count = n
              ELSE /\ httpResponse'.status = 429
                   /\ httpResponse'.remainingTime = 60
                   /\ userMessageCounts'[u].count = 0
                   /\ userMessageCounts'[u].mutedUntil = now + 60000
    ]_vars

\* The 21st send of a sender, made after the clock moved but within 60 s of
\* the first, was answered 429 with 60 seconds remaining.
C7_Witness ==
  \E u \in Senders :
    /\ sendsSeen[u] = MESSAGE_LIMIT + 1
    /\ httpResponse.sender = u
    /\ httpResponse.status = 429
    /\ httpResponse.remainingTime = 60
    /\ now > firstSendAt[u]
    /\ now <= firstSendAt[u] + WINDOW_MS
    /\ userMessageCounts[u].count = 0

\* C8: the first send made 60 s or more after a mute began is accepted and
\* leaves count = 1 and mutedUntil = 0.
C8_MuteElapses ==
  [][ \A u \in Senders :
        ( /\ Sending(u)
          /\ muteBegan[u] # NoTime
          /\ now >= muteBegan[u] + 60000 ) =>
            /\ httpResponse'.status # 429
            /\ userMessageCounts'[u].count = 1
            /\ userMessageCounts'[u].mutedUntil = 0
    ]_vars

\* A sender was muted, and a send made exactly 60 s after the mute began has
\* just been accepted.
C8_Witness ==
  \E u \in Senders :
    /\ httpResponse.sender = u
    /\ httpResponse.status = 200
    /\ sendsSeen[u] = MESSAGE_LIMIT + 2
    /\ muteBegan[u] = NoTime
    /\ userMessageCounts[u].count = 1
    /\ userMessageCounts[u].mutedUntil = 0
    /\ userMessageCounts[u].resetTime = now

(***************************************************************************)
(* Properties of the client call session, checked under SpecCall.          *)
(***************************************************************************)
\* No render is due and no effect cleanup is scheduled.
Quiescent ==
  ~pending.dirty /\ ~effect.armed

\* The refs hold a live microphone stream and an open peer connection.
CallLive ==
  /\ localStreamRef # NULL
  /\ streams[localStreamRef] = "live"
  /\ peerConnectionRef # NULL
  /\ pcs[peerConnectionRef].status = "open"

NothingHeld ==
  /\ localStreamRef = NULL
  /\ peerConnectionRef = NULL
  /\ \A s \in StreamIds : streams[s] # "live"
  /\ \A p \in PcIds : pcs[p].status # "open"

\* Invocation k of startCall learns that its target is unavailable: the
\* reply says so, or its 5 s timer fires first.
ResolvesUnavailable(k) ==
  \/ AvailabilityTimeout(k)
  \/ /\ calls[k].pos = "avail"
     /\ AvailabilityReply(calls[k].target, FALSE)

\* C9: when the availability check of a startCall invocation reports the
\* target unavailable (reply with available = false, or no reply before the
\* 5 s timer), the invocation ends there: it shows the "not currently
\* available" error, sends no call_offer, acquires no microphone stream,
\* creates no peer connection, and leaves the call state and the refs as
\* they were (Idle stays Idle).
C9_UnavailableAborts ==
  [][\A k \in Slots :
       ResolvesUnavailable(k) =>
         /\ calls'[k] = IdleCall
         /\ alerts' = {"unavailable"}
         /\ \A i \in DOMAIN clientOut' : clientOut'[i].type # "call_offer"
         /\ streams' = streams
         /\ localStreamRef' = localStreamRef
         /\ pcs' = pcs
         /\ peerConnectionRef' = peerConnectionRef
         /\ callState' = callState
         /\ pending' = pending]_vars

\* An invocation has just been turned away from an idle session, which holds
\* nothing and has sent nothing.
C9_Witness ==
  /\ alerts = {"unavailable"}
  /\ \A k \in Slots : calls[k] = IdleCall
  /\ callState = IdleCallState
  /\ Quiescent
  /\ NothingHeld
  /\ clientOut = <<>>

\* C10: on the run startCall (target available, microphone granted, offer
\* sent) / call_answer from the callee / connection established / endCall by
\* the user, with no other event, the session once settled is
\* OutgoingPending after the offer, still in the call after the answer,
\* Active once connected, each time holding its live stream and open peer
\* connection, and Idle holding nothing after endCall.
C10_HappyPath ==
  Quiescent =>
    /\ path.phase = "offered" =>
         callState.callType = "outgoing" /\ CallLive
    /\ path.phase = "answered" =>
         callState.callType \in {"outgoing", "active"} /\ CallLive
    /\ path.phase = "connected" =>
         callState.callType = "active" /\ CallLive
    /\ path.phase = "hungup" =>
         callState = IdleCallState /\ NothingHeld

(***************************************************************************)
(* Further properties of the relay, checked under SpecRelay.               *)
(***************************************************************************)
\* C15: a check_user_availability frame from an authenticated sender is
\* answered by exactly one write, to the sender's own transport: a
\* user_availability message whose userId is the frame's targetUserId and
\* whose available flag is true exactly when the registry holds an entry for
\* that id.  Nothing is written to the target.
C15_AvailabilityReply ==
  (Handled({"check_user_availability"}) /\ isAuthenticated[relayIn.conn]) =>
    /\ Cardinality(relayOut) = 1
    /\ \A o \in relayOut :
         /\ o.to = relayIn.conn
         /\ o.msg.type = "user_availability"
         /\ o.msg.userId = relayIn.frame.targetUserId
         /\ o.msg.available =
              (/\ relayIn.frame.targetUserId \in Users
               /\ connectedClients[relayIn.frame.targetUserId] # NULL)

\* The sender asked about another user whose registered transport is no
\* longer open, and was told that user is available.
C15_Witness ==
  /\ Handled({"check_user_availability"})
  /\ isAuthenticated[relayIn.conn]
  /\ relayIn.frame.targetUserId \in Users
  /\ connectedClients[relayIn.frame.targetUserId] \notin {NULL, relayIn.conn}
  /\ readyState[connectedClients[relayIn.frame.targetUserId]] # "OPEN"
  /\ \E o \in relayOut : o.to = relayIn.conn /\ o.msg.available /\ o.delivered

\* C16: a call_end frame from an authenticated sender is written, as
\* { type: call_end, fromUserId: sender }, to the transport registered for
\* its target when that transport is registered and open, and to nobody
\* else; when the target is not reachable nothing at all is written, so the
\* sender gets no reply.
C16_CallEndForwardOrDrop ==
  (Handled({"call_end"}) /\ isAuthenticated[relayIn.conn]) =>
    IF /\ relayIn.frame.targetUserId \in Users
       /\ connectedClients[relayIn.frame.targetUserId] # NULL
       /\ readyState[connectedClients[relayIn.frame.targetUserId]] = "OPEN"
      THEN /\ Cardinality(relayOut) = 1
           /\ \A o \in relayOut :
                /\ o.to = connectedClients[relayIn.frame.targetUserId]
                /\ o.msg.type = "call_end"
                /\ o.msg.fromUserId = authedAs[relayIn.conn]
      ELSE relayOut = {}

\* A call_end to a user who is registered on a transport that is closing was
\* dropped without any reply.
C16_Witness ==
  /\ Handled({"call_end"})
  /\ isAuthenticated[relayIn.conn]
  /\ relayIn.frame.targetUserId \in Users
  /\ connectedClients[relayIn.frame.targetUserId] \notin {NULL, relayIn.conn}
  /\ readyState[connectedClients[relayIn.frame.targetUserId]] = "CLOSING"
  /\ relayOut = {}

(***************************************************************************)
(* Further properties of the client call session, checked under SpecCall.  *)
(* The session's state is the latest one set, pending.state, which         *)
(* callState shows from the next render on.                                *)
(***************************************************************************)
\* C11: a call_offer that arrives while the session is OutgoingPending is
\* dropped: the handler leaves the call state (with its counterpart), the
\* peer connections and peerConnectionRef as they were.
C11_OfferDroppedWhileOutgoing ==
  [][\A t \in OfferTaskIds, from \in Peers :
       (pending.state.callType = "outgoing" /\ InboundOfferBegin(t, from)) =>
         /\ callState' = callState
         /\ pending' = pending
         /\ pcs' = pcs
         /\ peerConnectionRef' = peerConnectionRef]_vars

\* endCall is invoked: by the dialog's end or reject button, by the effect
\* cleanup, or by the handler of call_end / call_error.
EndCallInvoked ==
  \/ UserEndCall
  \/ UserRejectCall
  \/ FlushEffects
  \/ \E from \in Peers, type \in {"call_end", "call_error"} : InboundEnd(from, type)

\* No availability timer and no offer timer is armed.
NoTimerArmed ==
  /\ \A k \in Slots : calls[k].pos # "avail" /\ ~calls[k].timer
  /\ \A o \in Others : staleTimers[o] = 0

\* C12: endCall or rejectCall pressed in a session that is not Idle stops the
\* stream in localStreamRef, closes the connection in peerConnectionRef,
\* clears both refs, leaves no timer armed, sends one call_end to the
\* counterpart and sets the state to Idle; an endCall invoked when the
\* session is already Idle and holds nothing releases nothing, sends nothing
\* and leaves the state Idle.
C12_EndCallIdempotent ==
  [][/\ (pending.state # IdleCallState /\ (UserEndCall \/ UserRejectCall)) =>
          /\ localStreamRef' = NULL
          /\ peerConnectionRef' = NULL
          /\ localStreamRef # NULL => streams'[localStreamRef] # "live"
          /\ peerConnectionRef # NULL => pcs'[peerConnectionRef].status # "open"
          /\ NoTimerArmed'
          /\ clientOut' = <<ClientMsg("call_end", pending.state.otherUser.id)>>
          /\ pending'.state = IdleCallState
     /\ (/\ pending.state = IdleCallState
         /\ localStreamRef = NULL
         /\ peerConnectionRef = NULL
         /\ EndCallInvoked) =>
          /\ clientOut' = <<>>
          /\ streams' = streams
          /\ pcs' = pcs
          /\ pending'.state = IdleCallState]_vars

OfferTimerArmed ==
  \/ \E k \in Slots : calls[k].timer
  \/ \E o \in Others : staleTimers[o] > 0

\* C14: while the session is OutgoingPending (the offer has been sent and no
\* answer has made the call active) a 15 s offer timer is armed, whose firing
\* aborts the call with the "timed out" error.
C14_PendingOfferTimed ==
  pending.state.callType = "outgoing" => OfferTimerArmed

\* C17: when the call_offer handler finishes on a session that is Idle, the
\* connection it created holds the offer as remote description and the
\* session is IncomingPending with the caller as counterpart: the roster
\* entry when the caller is in the cached roster, the bare id otherwise.
C17_IdleOfferRings ==
  [][\A t \in OfferTaskIds :
       (/\ InboundOfferEnd(t)
        /\ pending.state = IdleCallState
        /\ pcs[offerTasks[t].pc].status = "open")
       => /\ pcs'[offerTasks[t].pc].remote = "offer"
          /\ pending'.state.callType = "incoming"
          /\ pending'.state.otherUser = CallingUser(users, offerTasks[t].from)
    ]_vars

\* C18: an invocation of answerCall goes past its guard and asks for the
\* microphone exactly when the session is IncomingPending; in any other
\* state it starts nothing.
C18_AnswerOnlyWhenIncoming ==
  [][\A a \in AnswerTaskIds :
       UserAnswerCall(a)
       => (answerTasks'[a].pos = "media"
             <=> pending.state.callType = "incoming")
    ]_vars

\* C19: an ice_candidate that arrives while peerConnectionRef holds no
\* connection changes neither the call state, the counterpart, the refs, the
\* connections nor the streams, sends nothing and leaves no rejection.
C19_IceWithoutPcDropped ==
  [][\A from \in Peers :
       (peerConnectionRef = NULL /\ InboundIce(from))
       => /\ UNCHANGED <<callState, pending, peerConnectionRef, localStreamRef,
                         pcs, streams>>
          /\ clientOut' = <<>>
          /\ alerts' = {}
    ]_vars

\* The candidates of a caller reach a callee whose connection the effect
\* cleanup has closed already while the dialog still shows the call.
C19_Witness ==
  /\ peerConnectionRef = NULL
  /\ callState.callType = "incoming"
  /\ pending.state = IdleCallState
  /\ path = OffPath
  /\ alerts = {}
  /\ clientOut = <<>>

C21_TransportSignals ==
  [][\A p \in PcIds :
       /\ (PcConnected(p) /\ p = peerConnectionRef
             /\ pending.state.callType \in {"outgoing", "incoming"})
            => pending'.state.callType = "active"
       /\ (PcFailed(p) /\ p = peerConnectionRef
             /\ pending.state.callType = "active")
            => /\ pending'.state = IdleCallState
               /\ peerConnectionRef' = NULL
               /\ localStreamRef' = NULL
               /\ pcs'[p].status = "closed"
               /\ localStreamRef # NULL => streams'[localStreamRef] # "live"
               /\ clientOut' =
                    <<ClientMsg("call_end", pending.state.otherUser.id)>>
    ]_vars

\* The refs are empty and what they held before the step is released.
RefsReleased ==
  /\ localStreamRef' = NULL
  /\ peerConnectionRef' = NULL
  /\ localStreamRef # NULL => streams'[localStreamRef] # "live"
  /\ peerConnectionRef # NULL => pcs'[peerConnectionRef].status = "closed"

C23_BroadcastBestEffort ==
  [][\A type \in BroadcastTypes, uid \in Users, ok \in SUBSET Conns :
       BroadcastToAllClients(type, uid, ok)
       => /\ \A c \in OpenClients(connectedClients, readyState) :
               \E s \in relayOut' :
                 /\ s.to = c
                 /\ s.msg = BroadcastMsg(type, uid)
                 /\ s.delivered = (c \in ok)
          /\ \A s \in relayOut' :
               s.to \in OpenClients(connectedClients, readyState)
          /\ UNCHANGED <<readyState, isAuthenticated, connectedClients>>
    ]_vars

\* A broadcast to two open clients of which the first write failed and the
\* second went through.
C23_Witness ==
  /\ relayIn.event = "broadcast"
  /\ \E s \in relayOut, t \in relayOut :
       s.to < t.to /\ ~s.delivered /\ t.delivered

\* C24: a frame of an unknown type, or one that does not parse, handled on an
\* authenticated transport writes nothing and leaves the registry, the
\* closure's identity and authentication flag and every readyState as they
\* were, so an open transport stays open for the frames that follow.
C24_UnknownDropped ==
  [][\A c \in Conns, writeOk \in BOOLEAN :
       \A m \in {MalformedFrame, Frame("unknown", NoToken, NULL, NULL, NULL)} :
         (isAuthenticated[c] /\ OnMessage(c, m, writeOk))
         => /\ relayOut' = {}
            /\ UNCHANGED <<readyState, closeCode, userId, isAuthenticated,
                           connectedClients>>
    ]_vars

C24_Witness ==
  /\ relayIn.event = "message"
  /\ relayIn.frame.type = "unknown"
  /\ isAuthenticated[relayIn.conn]
  /\ readyState[relayIn.conn] = "OPEN"
  /\ connectedClients[userId[relayIn.conn]] = relayIn.conn
  /\ relayOut = {}

(***************************************************************************)
(* Teardown paths and resource discipline                                  *)
(***************************************************************************)

\* The call_end frames among the sends of the last step.
CallEndsSent ==
  {i \in DOMAIN clientOut : clientOut[i].type = "call_end"}

\* C25: one teardown sends the counterpart at most one call_end, whichever
\* path (hangup, reject, inbound call_end, timeout, transport failure)
\* started it.
C25_AtMostOneCallEnd ==
  Cardinality(CallEndsSent) <= 1

\* No invocation of startCall, answerCall or the call_offer handler is
\* suspended at an await.
NothingInFlight ==
  /\ \A k \in Slots : calls[k].pos = "idle"
  /\ \A t \in OfferTaskIds : ~offerTasks[t].busy
  /\ \A a \in AnswerTaskIds : answerTasks[a].pos = "idle"

\* C26: whenever the session is Idle and no invocation is in flight, no
\* timer is armed, both refs are empty, no microphone stream is live and no
\* peer connection is open.
C26_IdleHoldsNothing ==
  (pending.state = IdleCallState /\ NothingInFlight)
  => NoTimerArmed /\ NothingHeld

\* C27: a call_offer handled while the session is IncomingPending or Active
\* leaves the connection in peerConnectionRef and the counterpart of the
\* session as they are.
C27_OfferKeepsSession ==
  [][\A t \in OfferTaskIds :
       /\ \A from \in Peers :
            (InboundOfferBegin(t, from)
               /\ pending.state.callType \in {"incoming", "active"})
            => peerConnectionRef' = peerConnectionRef
       /\ (InboundOfferEnd(t)
             /\ pending.state.callType \in {"incoming", "active"})
            => pending'.state = pending.state
    ]_vars

\* C28: the cleanup of the [endCall] effect, run because a render committed
\* (the page is not unmounted), leaves a session that is OutgoingPending or
\* IncomingPending as it is: its state, its refs, its stream and its
\* connection.
C28_RenderKeepsCall ==
  [][(FlushEffects /\ pending.state.callType \in {"outgoing", "incoming"})
       => UNCHANGED <<pending, peerConnectionRef, localStreamRef, pcs,
                      streams>>
    ]_vars

\* C29: an ice_candidate frame sent by the connection of a session that has
\* a counterpart carries that counterpart's id as targetUserId.
C29_IceTargetsCounterpart ==
  [][\A p \in PcIds :
       (PcIceCandidate(p) /\ p = peerConnectionRef
          /\ pending.state.otherUser # NoUser)
       => clientOut' =
            <<ClientMsg("ice_candidate", pending.state.otherUser.id)>>
    ]_vars

\* C30: a call_end or a call_answer whose fromUserId is not the id of the
\* session's counterpart leaves the session as it is: its state, its refs,
\* its stream and its connections with their remote descriptions.
C30_StrangerHasNoEffect ==
  [][\A from \in FromIds :
       (/\ pending.state.otherUser # NoUser
        /\ from # pending.state.otherUser.id
        /\ InboundEnd(from, "call_end") \/ InboundAnswer(from))
       => UNCHANGED <<pending, peerConnectionRef, localStreamRef, pcs,
                      streams>>
    ]_vars

(***************************************************************************)
(* Timers, descriptions, registry, rate limiter, toggles, presence         *)
(***************************************************************************)

\* C31: a 15 s offer timer acts (runs endCall and shows "timed out") only
\* while the invocation of startCall that armed it is still waiting for
\* createOffer or setLocalDescription.
C31_NoLateTimer ==
  [][("timeout" \in alerts')
       => \E k \in Slots :
            calls[k].timer /\ calls[k].pos \in {"offer", "setLocal"}
    ]_vars

\* C32: whenever the session is Active, peerConnectionRef holds an open
\* connection with a local and a remote description.
C32_ActiveHasDescriptions ==
  pending.state.callType = "active"
  => /\ peerConnectionRef # NULL
     /\ pcs[peerConnectionRef].status = "open"
     /\ pcs[peerConnectionRef].local
     /\ pcs[peerConnectionRef].remote # "none"

\* The identities under which the registry holds transport c.
RegisteredAs(c) ==
  {u \in Users : connectedClients[u] = c}

\* C33: every transport is registered under at most one identity, and no
\* registry entry refers to a transport that has closed.
C33_OneIdentityPerTransport ==
  \A c \in Conns :
    /\ Cardinality(RegisteredAs(c)) <= 1
    /\ readyState[c] = "CLOSED" => RegisteredAs(c) = {}

RECURSIVE SumLog(_)
\* The number of sends in an accept log.
SumLog(log) ==
  IF log = <<>> THEN 0 ELSE Head(log).n + SumLog(Tail(log))

\* C34: the sends of a sender that passed the limiter at instants less than
\* 60 seconds apart are at most 20.
C34_TwentyPerInterval ==
  \A u \in Senders : SumLog(acceptLog[u]) <= MESSAGE_LIMIT

\* A step in which the client only receives call_end or lets React render
\* and run the effect cleanup.
HangupStep ==
  \/ \E from \in FromIds : InboundEnd(from, "call_end")
  \/ Render
  \/ FlushEffects

C36_SilentTransportClosed ==
  \A c \in Conns :
    (readyState[c] = "OPEN" /\ ~isAuthenticated[c])
      ~> (readyState[c] # "OPEN" \/ isAuthenticated[c])

\* The connections a push to sender u and recipient r is written to: those
\* registered under either id that are open.
OpenOf(u, r) ==
  {c \in ({Lookup(connectedClients, r), Lookup(connectedClients, u)} \ {NULL}) :
     readyState[c] = "OPEN"}

\* C37: a send the limiter rejects is answered 429 with the remaining
\* seconds, is not persisted and pushes nothing; a send the limiter accepts
\* and that is persisted is answered 200 and pushed as `message` to exactly
\* the open connections registered for the recipient and for the sender,
\* whether or not the recipient is registered.
C37_SendOutcome ==
  [][\A u \in Senders, r \in Users, validBody \in BOOLEAN :
       PostMessage(u, r, validBody)
       => LET verdict == IsRateLimited(userMessageCounts[u], now) IN
          /\ verdict.limited
               => /\ httpResponse'.status = 429
                  /\ httpResponse'.remainingTime = verdict.remainingTime
                  /\ ~httpResponse'.persisted
                  /\ relayOut' = {}
          /\ (~verdict.limited /\ httpResponse'.persisted)
               => /\ httpResponse'.status = 200
                  /\ relayOut' = {SendTo(readyState, c, ChatPush(u, r), TRUE) :
                                    c \in OpenOf(u, r)}
                  /\ \A o \in relayOut' : o.delivered /\ o.msg.type = "message"]_vars

\* A message to user 2, who is not registered, was stored and answered 200;
\* the sender's open connection got the push.
C37_Witness ==
  /\ relayIn.event = "post"
  /\ httpResponse.status = 200
  /\ httpResponse.persisted
  /\ connectedClients[2] = NULL
  /\ Reachable(connectedClients, readyState, 1)
  /\ \E o \in relayOut :
       /\ o.to = connectedClients[1]
       /\ o.msg.type = "message"
       /\ o.msg.targetUserId = 2

OutgoingTrackDisabled ==
  localStreamRef # NULL /\ localStreamRef \in trackDisabled

\* C39: whenever the rendered call state is up to date, it reports isMuted
\* exactly when the outgoing audio track is disabled and isSpeakerOn exactly
\* when the audio element is not muted.
C39_TogglesReportMedia ==
  ~pending.dirty
    => /\ callState.isMuted <=> OutgoingTrackDisabled
       /\ callState.isSpeakerOn <=> ~audioMuted

\* C40: a request to any of the routes that create a user, once the user is
\* stored, writes user_added for that user to every registered open
\* transport, and a request to any of the routes that update a profile, once
\* the update is stored, writes user_updated to every one of them.
C40_EveryRouteBroadcasts ==
  [][\A route \in CreateRoutes \cup UpdateRoutes, uid \in Users,
        ok \in SUBSET Conns :
       UserRoute(route, uid, TRUE, ok)
       => \A c \in OpenClients(connectedClients, readyState) :
            \E s \in relayOut' :
              /\ s.to = c
              /\ s.msg = BroadcastMsg(IF route \in CreateRoutes
                                        THEN "user_added" ELSE "user_updated",
                                      uid)
    ]_vars

====
